---- MODULE Spec2Model ----
(***************************************************************************)
(* A model of the distributed id allocator: the TypeScript IdCompressor    *)
(* (the adapter class) over the native core it drives through the wasm     *)
(* interface.  The adapter is translated from its source; the core, whose  *)
(* source is a separate crate, is written from the specification's data    *)
(* model and algorithms (sections 3 and 4).                                *)
(***************************************************************************)
EXTENDS Integers, Sequences, FiniteSets, TLC

VARIABLES comp, minted, taken, delivered, lastOp, observe

vars == <<comp, minted, taken, delivered, lastOp, observe>>

(***************************************************************************)
(* Bounds of the model.                                                    *)
(***************************************************************************)
\* the largest GenCount any session mints or any delivered range names
MaxGen == 2

(***************************************************************************)
(* Program constants and input domains.                                    *)
(***************************************************************************)
MaxClusterSize == 2 ^ 20

currentWrittenVersion == 1

\* session ids of the document; "F" is the id a fresh generateStableId() yields
DocSessionIds == {"A", "B"}
FreshSessionIds == {"F"}
AllSessionIds == DocSessionIds \cup FreshSessionIds

\* capacities offered to setClusterCapacity: valid ones, and one past each end
CapacityInputs == {0, 1, 2, MaxClusterSize + 1}
\* the core's default capacity is fixed by the native crate: any valid small value
DefaultCapacities == {1, 2}

\* A SessionId is a StableId, a 122-bit number; sessions are far apart.
UuidGap == 4 * (MaxGen + 2)

SessionBase(sid) ==
    CASE sid = "A" -> 1 * UuidGap
      [] sid = "B" -> 2 * UuidGap
      [] sid = "C" -> 3 * UuidGap
      [] sid = "F" -> 4 * UuidGap

SessionOfBase(b) == CHOOSE sid \in AllSessionIds : SessionBase(sid) = b

Max(a, b) == IF a >= b THEN a ELSE b

(***************************************************************************)
(* The core (spec sections 3 and 4): CompressorState and its algorithms.   *)
(* SessionIndex i is position i + 1 of the session table.                  *)
(***************************************************************************)
CoreNew(sid, policy) ==
    [ sessions              |-> <<sid>>,
      localSession          |-> 0,
      nextLocalGenCount     |-> 0,
      lastTakenGenCount     |-> 0,
      clusterCapacityPolicy |-> policy,
      clusters              |-> <<>>,
      nextFinal             |-> 0 ]

\* indexOf(id): the index of an interned session, -1 when it is not interned
IndexOf(core, sid) ==
    IF \E i \in 1..Len(core.sessions) : core.sessions[i] = sid
    THEN (CHOOSE i \in 1..Len(core.sessions) : core.sessions[i] = sid) - 1
    ELSE -1

\* internSession(id): the existing index, or the next free one
InternSession(core, sid) ==
    IF IndexOf(core, sid) >= 0
    THEN [core |-> core, index |-> IndexOf(core, sid)]
    ELSE [core  |-> [core EXCEPT !.sessions = Append(@, sid)],
          index |-> Len(core.sessions)]

SessionIdOf(core, idx) == core.sessions[idx + 1]

\* positions, in the cluster vector, of the clusters of session idx
SessionClusterPositions(core, idx) ==
    {i \in 1..Len(core.clusters) : core.clusters[i].session = idx}

\* the position of the session's last cluster, 0 when it has none
ActivePosition(core, idx) ==
    IF SessionClusterPositions(core, idx) = {} THEN 0
    ELSE CHOOSE i \in SessionClusterPositions(core, idx) :
            \A j \in SessionClusterPositions(core, idx) : j <= i

\* findByFinal(f): rightmost cluster with baseFinal <= f, confirmed by count
FindByFinal(core, f) ==
    LET cand == {i \in 1..Len(core.clusters) : core.clusters[i].baseFinal <= f}
        r    == IF cand = {} THEN 0
                ELSE CHOOSE i \in cand : \A j \in cand :
                        core.clusters[j].baseFinal <= core.clusters[i].baseFinal
    IN IF r # 0 /\ f < core.clusters[r].baseFinal + core.clusters[r].count
       THEN r ELSE 0

\* findBySessionGen(s, g): rightmost cluster of s with firstGenCount <= g
FindBySessionGen(core, idx, g) ==
    LET cand == {i \in SessionClusterPositions(core, idx) :
                    core.clusters[i].firstGenCount <= g}
        r    == IF cand = {} THEN 0
                ELSE CHOOSE i \in cand : \A j \in cand :
                        core.clusters[j].firstGenCount <= core.clusters[i].firstGenCount
    IN IF r # 0 /\ g < core.clusters[r].firstGenCount + core.clusters[r].count
       THEN r ELSE 0

\* the FinalId a cluster gives GenCount g
FinalOf(cluster, g) == cluster.baseFinal + (g - cluster.firstGenCount)

\* the finalizer advancing nextFinal by the count of a new cluster instead of
\* its capacity
CoreFinalizeRange_PackByCount(core, idx, first, count) ==
    LET a      == ActivePosition(core, idx)
        active == core.clusters[a]
    IN IF count < 1
       THEN [core |-> core, err |-> "ProtocolError"]
       ELSE IF a # 0 /\ active.firstGenCount + active.count # first
       THEN [core |-> core, err |-> "ProtocolError"]
       ELSE IF a # 0 /\ active.count + count <= active.capacity
                     /\ active.baseFinal + active.capacity = core.nextFinal
       THEN [core |-> [core EXCEPT !.clusters[a].count = @ + count],
             err  |-> "none"]
       ELSE LET capacity == Max(core.clusterCapacityPolicy, count)
                new == [ session       |-> idx,
                         firstGenCount |-> first,
                         capacity      |-> capacity,
                         count         |-> count,
                         baseFinal     |-> core.nextFinal ]
            IN [core |-> [core EXCEPT !.clusters = Append(@, new),
                                      !.nextFinal = core.nextFinal + count],
                err  |-> "none"]

\* 4.5 Finalizer, steps 2 to 4; the session is interned by the caller's token
CoreFinalizeRange(core, idx, first, count) ==
    LET a      == ActivePosition(core, idx)
        active == core.clusters[a]
    IN IF count < 1
       THEN [core |-> core, err |-> "ProtocolError"]
       ELSE IF a # 0 /\ active.firstGenCount + active.count # first
       THEN [core |-> core, err |-> "ProtocolError"]
       ELSE IF a # 0 /\ active.count + count <= active.capacity
                     /\ active.baseFinal + active.capacity = core.nextFinal
       THEN [core |-> [core EXCEPT !.clusters[a].count = @ + count],
             err  |-> "none"]
       ELSE LET capacity == Max(core.clusterCapacityPolicy, count)
                new == [ session       |-> idx,
                         firstGenCount |-> first,
                         capacity      |-> capacity,
                         count         |-> count,
                         baseFinal     |-> core.nextFinal ]
            IN [core |-> [core EXCEPT !.clusters = Append(@, new),
                                      !.nextFinal = core.nextFinal + capacity],
                err  |-> "none"]

\* 4.3 Local-ID generator
CoreGenerate(core) ==
    LET g == core.nextLocalGenCount + 1
        a == ActivePosition(core, core.localSession)
        covered == a # 0 /\ core.clusters[a].firstGenCount <= g
                         /\ g < core.clusters[a].firstGenCount + core.clusters[a].count
    IN [core |-> [core EXCEPT !.nextLocalGenCount = g],
        id   |-> IF covered THEN FinalOf(core.clusters[a], g) ELSE -g]

\* 4.7 Range buffer: what take_next_range hands to the adapter
CoreTakeNextRange(core) ==
    IF core.lastTakenGenCount = core.nextLocalGenCount
    THEN [core |-> core, hasIds |-> FALSE, first_local_gen_count |-> 0, count |-> 0]
    ELSE [core   |-> [core EXCEPT !.lastTakenGenCount = core.nextLocalGenCount],
          hasIds |-> TRUE,
          first_local_gen_count |-> core.lastTakenGenCount + 1,
          count  |-> core.nextLocalGenCount - core.lastTakenGenCount]

\* A number crossing the wasm boundary: NaN signals an error, whose text
\* get_error_string then returns.
Num(n) == [isNaN |-> FALSE, num |-> n, err |-> "none"]
NaN(e) == [isNaN |-> TRUE, num |-> 0, err |-> e]

\* 4.6 toOpSpace
CoreToOpSpace(core, id) ==
    IF id >= 0 THEN Num(id)
    ELSE LET p == FindBySessionGen(core, core.localSession, -id)
         IN IF p # 0 THEN Num(FinalOf(core.clusters[p], -id)) ELSE Num(id)

\* 4.6 toSessionSpace, the origin session given by its token
CoreToSessionSpace(core, id, idx) ==
    IF id >= 0
    THEN IF FindByFinal(core, id) # 0 THEN Num(id) ELSE NaN("UnknownId")
    ELSE LET p == FindBySessionGen(core, idx, -id)
         IN IF p # 0 THEN Num(FinalOf(core.clusters[p], -id))
            ELSE IF idx = core.localSession THEN Num(id)
            ELSE NaN("UnfinalizedForeignId")

\* An optional StableId (numeric): absent when the id is unknown.
Some(v) == [defined |-> TRUE, val |-> v]
Undefined == [defined |-> FALSE, val |-> 0]

\* 4.6 decompress
CoreDecompress(core, id) ==
    IF id < 0
    THEN Some(SessionBase(SessionIdOf(core, core.localSession)) + ((-id) - 1))
    ELSE LET p == FindByFinal(core, id)
             c == core.clusters[p]
         IN IF p = 0 THEN Undefined
            ELSE Some(SessionBase(SessionIdOf(core, c.session))
                        + (c.firstGenCount - 1 + (id - c.baseFinal)))

\* the highest GenCount known for a session: minted (local) or finalized (remote)
HighestKnownGenCount(core, idx) ==
    IF idx = core.localSession THEN core.nextLocalGenCount
    ELSE LET a == ActivePosition(core, idx)
         IN IF a = 0 THEN 0
            ELSE core.clusters[a].firstGenCount + core.clusters[a].count - 1

\* 4.6 recompress
CoreRecompress(core, stable) ==
    LET below == {i \in 0..(Len(core.sessions) - 1) :
                    SessionBase(SessionIdOf(core, i)) <= stable}
        owner == CHOOSE i \in below : \A j \in below :
                    SessionBase(SessionIdOf(core, j)) <= SessionBase(SessionIdOf(core, i))
        g     == stable - SessionBase(SessionIdOf(core, owner)) + 1
        p     == FindBySessionGen(core, owner, g)
    IN IF below = {} THEN Undefined
       ELSE IF g > HighestKnownGenCount(core, owner) THEN Undefined
       ELSE IF p # 0 THEN Some(FinalOf(core.clusters[p], g))
       ELSE IF owner = core.localSession THEN Some(-g)
       ELSE Undefined

(***************************************************************************)
(* The adapter: class IdCompressor.  An object is the record               *)
(*   [localSessionId, sessionTokens, wasmCompressor]                       *)
(* and every method is an operator from the object (and the arguments) to  *)
(* the object after the call and what the call returned or threw.          *)
(***************************************************************************)
NoTokens == [s \in {} |-> 0]

\* new IdCompressor(new WasmIdCompressor(localSessionId), localSessionId)
create(sessionId, defaultCapacity) ==
    [ localSessionId |-> sessionId,
      sessionTokens  |-> NoTokens,
      wasmCompressor |-> CoreNew(sessionId, defaultCapacity) ]

\* setClusterCapacity that also resizes the clusters already allocated
setClusterCapacity_Resize(self, clusterCapacity) ==
    IF ~(clusterCapacity > 0)
    THEN [self |-> self, ok |-> FALSE, err |-> "0x481"]
    ELSE IF ~(clusterCapacity <= MaxClusterSize)
    THEN [self |-> self, ok |-> FALSE, err |-> "0x482"]
    ELSE [self |-> [self EXCEPT
                      !.wasmCompressor.clusterCapacityPolicy = clusterCapacity,
                      !.wasmCompressor.clusters =
                          [i \in 1..Len(self.wasmCompressor.clusters) |->
                              [self.wasmCompressor.clusters[i] EXCEPT
                                  !.capacity =
                                      Max(clusterCapacity,
                                          self.wasmCompressor.clusters[i].count)]]],
          ok   |-> TRUE, err |-> "none"]

\* setClusterCapacity without its first assertion
setClusterCapacity_AcceptZero(self, clusterCapacity) ==
    IF ~(clusterCapacity <= MaxClusterSize)
    THEN [self |-> self, ok |-> FALSE, err |-> "0x482"]
    ELSE [self |-> [self EXCEPT !.wasmCompressor.clusterCapacityPolicy = clusterCapacity],
          ok   |-> TRUE, err |-> "none"]

setClusterCapacity(self, clusterCapacity) ==
    IF ~(clusterCapacity > 0)
    THEN [self |-> self, ok |-> FALSE, err |-> "0x481"]
    ELSE IF ~(clusterCapacity <= MaxClusterSize)
    THEN [self |-> self, ok |-> FALSE, err |-> "0x482"]
    ELSE [self |-> [self EXCEPT !.wasmCompressor.clusterCapacityPolicy = clusterCapacity],
          ok   |-> TRUE, err |-> "none"]

\* getOrCreateSessionToken taking a missing token from the size of the cache
\* instead of asking the core for it
getOrCreateSessionToken_CacheSize(self, sessionId) ==
    IF sessionId \in DOMAIN self.sessionTokens
    THEN [self |-> self, token |-> self.sessionTokens[sessionId]]
    ELSE LET size == Cardinality(DOMAIN self.sessionTokens)
         IN [self  |-> [self EXCEPT
                          !.sessionTokens =
                              [s \in DOMAIN self.sessionTokens \cup {sessionId} |->
                                  IF s = sessionId THEN size
                                  ELSE self.sessionTokens[s]]],
             token |-> size]

getOrCreateSessionToken(self, sessionId) ==
    IF sessionId \in DOMAIN self.sessionTokens
    THEN [self |-> self, token |-> self.sessionTokens[sessionId]]
    ELSE LET got == InternSession(self.wasmCompressor, sessionId)
         IN [self  |-> [self EXCEPT
                          !.wasmCompressor = got.core,
                          !.sessionTokens =
                              [s \in DOMAIN self.sessionTokens \cup {sessionId} |->
                                  IF s = sessionId THEN got.index
                                  ELSE self.sessionTokens[s]]],
             token |-> got.index]

\* getIds(range): the ids of a range, absent (the empty tuple) when it has none
getIds(range) == range.ids

\* the arguments finalize_range is called with
FinalizeCall(token, first, count) == [token |-> token, first |-> first, count |-> count]
NoCall == [token |-> -1, first |-> 0, count |-> 0]

\* finalizeCreationRange that skips the ranges of its own session
finalizeCreationRange_SkipOwn(self, range) ==
    LET ids == getIds(range) IN
    IF ids = <<>> \/ range.sessionId = self.localSessionId
    THEN [self |-> self, ok |-> TRUE, err |-> "none", call |-> NoCall]
    ELSE LET first == ids[1]
             last  == ids[2]
             tok   == getOrCreateSessionToken(self, range.sessionId)
             call  == FinalizeCall(tok.token, first, first - last + 1)
             done  == CoreFinalizeRange(tok.self.wasmCompressor,
                                        call.token, call.first, call.count)
         IN [self |-> [tok.self EXCEPT !.wasmCompressor = done.core],
             ok   |-> done.err = "none",
             err  |-> done.err,
             call |-> call]

\* finalizeCreationRange that looks the session token up before it looks at the
\* ids of the range
finalizeCreationRange_TokenFirst(self, range) ==
    LET ids == getIds(range)
        tok == getOrCreateSessionToken(self, range.sessionId)
    IN
    IF ids = <<>>
    THEN [self |-> tok.self, ok |-> TRUE, err |-> "none", call |-> NoCall]
    ELSE LET first == ids[1]
             last  == ids[2]
             call  == FinalizeCall(tok.token, first, first - last + 1)
             done  == CoreFinalizeRange(tok.self.wasmCompressor,
                                        call.token, call.first, call.count)
         IN [self |-> [tok.self EXCEPT !.wasmCompressor = done.core],
             ok   |-> done.err = "none",
             err  |-> done.err,
             call |-> call]

\* finalizeCreationRange that drops the error of the core
finalizeCreationRange_Swallow(self, range) ==
    LET ids == getIds(range) IN
    IF ids = <<>>
    THEN [self |-> self, ok |-> TRUE, err |-> "none", call |-> NoCall]
    ELSE LET first == ids[1]
             last  == ids[2]
             tok   == getOrCreateSessionToken(self, range.sessionId)
             call  == FinalizeCall(tok.token, first, first - last + 1)
             done  == CoreFinalizeRange(tok.self.wasmCompressor,
                                        call.token, call.first, call.count)
         IN [self |-> [tok.self EXCEPT !.wasmCompressor = done.core],
             ok   |-> TRUE,
             err  |-> "none",
             call |-> call]

finalizeCreationRange(self, range) ==
    LET ids == getIds(range) IN
    IF ids = <<>>
    THEN [self |-> self, ok |-> TRUE, err |-> "none", call |-> NoCall]
    ELSE LET first == ids[1]
             last  == ids[2]
             tok   == getOrCreateSessionToken(self, range.sessionId)
             call  == FinalizeCall(tok.token, first, first - last + 1)
             done  == CoreFinalizeRange(tok.self.wasmCompressor,
                                        call.token, call.first, call.count)
         IN [self |-> [tok.self EXCEPT !.wasmCompressor = done.core],
             ok   |-> done.err = "none",
             err  |-> done.err,
             call |-> call]

\* takeNextCreationRange with lastGenCount computed as first + count
takeNextCreationRange_LastOffByOne(self) ==
    LET wasmRange == CoreTakeNextRange(self.wasmCompressor)
        after     == [self EXCEPT !.wasmCompressor = wasmRange.core]
    IN IF ~wasmRange.hasIds
       THEN [self |-> after, range |-> [sessionId |-> self.localSessionId, ids |-> <<>>]]
       ELSE [self  |-> after,
             range |-> [sessionId |-> self.localSessionId,
                        ids |-> << wasmRange.first_local_gen_count,
                                   wasmRange.first_local_gen_count + wasmRange.count >>]]

takeNextCreationRange(self) ==
    LET wasmRange == CoreTakeNextRange(self.wasmCompressor)
        after     == [self EXCEPT !.wasmCompressor = wasmRange.core]
    IN IF ~wasmRange.hasIds
       THEN [self |-> after, range |-> [sessionId |-> self.localSessionId, ids |-> <<>>]]
       ELSE [self  |-> after,
             range |-> [sessionId |-> self.localSessionId,
                        ids |-> << wasmRange.first_local_gen_count,
                                   wasmRange.first_local_gen_count + wasmRange.count - 1 >>]]

generateCompressedId(self) ==
    LET got == CoreGenerate(self.wasmCompressor)
    IN [self |-> [self EXCEPT !.wasmCompressor = got.core], id |-> got.id]

\* a thrown Error carries get_error_string(); a returned id carries none
idOrError(idNum) ==
    IF idNum.isNaN
    THEN [ok |-> FALSE, val |-> 0, err |-> idNum.err]
    ELSE [ok |-> TRUE, val |-> idNum.num, err |-> "none"]

normalizeToOpSpace(self, id) ==
    idOrError(CoreToOpSpace(self.wasmCompressor, id))

\* normalizeToSessionSpace looking up the token of its own session instead of
\* the origin session's
normalizeToSessionSpace_OwnToken(self, id, originSessionId) ==
    LET tok          == getOrCreateSessionToken(self, self.localSessionId)
        normalizedId == CoreToSessionSpace(tok.self.wasmCompressor, id, tok.token)
        r            == idOrError(normalizedId)
    IN [self |-> tok.self, ok |-> r.ok, val |-> r.val, err |-> r.err]

\* returns the object too: looking the token up may intern the session
normalizeToSessionSpace(self, id, originSessionId) ==
    LET tok          == getOrCreateSessionToken(self, originSessionId)
        normalizedId == CoreToSessionSpace(tok.self.wasmCompressor, id, tok.token)
        r            == idOrError(normalizedId)
    IN [self |-> tok.self, ok |-> r.ok, val |-> r.val, err |-> r.err]

\* tryDecompress that only knows local ids
tryDecompress_LocalOnly(self, id) ==
    IF id < 0 THEN CoreDecompress(self.wasmCompressor, id) ELSE Undefined

tryDecompress(self, id) == CoreDecompress(self.wasmCompressor, id)

decompress(self, id) ==
    LET r == tryDecompress(self, id)
    IN IF r.defined THEN [ok |-> TRUE, val |-> r.val, err |-> "none"]
       ELSE [ok |-> FALSE, val |-> 0, err |-> "Could not decompress."]

tryRecompress(self, uncompressed) == CoreRecompress(self.wasmCompressor, uncompressed)

recompress(self, uncompressed) ==
    LET r == tryRecompress(self, uncompressed)
    IN IF r.defined THEN [ok |-> TRUE, val |-> r.val, err |-> "none"]
       ELSE [ok |-> FALSE, val |-> 0, err |-> "Could not recompress."]

(***************************************************************************)
(* 6. Serialized format: the fields in order, one number per field.        *)
(***************************************************************************)
ClusterFields(c) == <<c.session, c.firstGenCount, c.capacity, c.count, c.baseFinal>>

CoreSerialize(core, withSession) ==
    LET ns == Len(core.sessions)
        nc == Len(core.clusters)
    IN  << currentWrittenVersion, core.clusterCapacityPolicy,
           IF withSession THEN 1 ELSE 0, ns >>
        \o [i \in 1..ns |-> SessionBase(core.sessions[i])]
        \o << nc >>
        \o [k \in 1..(5 * nc) |->
               ClusterFields(core.clusters[((k - 1) \div 5) + 1])[((k - 1) % 5) + 1]]
        \o << core.nextFinal >>
        \o (IF withSession
            THEN << core.localSession, core.nextLocalGenCount, core.lastTakenGenCount >>
            ELSE << >>)

\* WasmIdCompressor.deserialize(bytes, sessionId): a blob with a local session
\* restores it; a blob without one starts the given session
CoreDeserialize(bytes, sessionId) ==
    LET policy   == bytes[2]
        hasLocal == bytes[3] = 1
        ns       == bytes[4]
        sessions == [i \in 1..ns |-> SessionOfBase(bytes[4 + i])]
        nc       == bytes[5 + ns]
        at(j, f) == bytes[5 + ns + 5 * (j - 1) + f]
        clusters == [j \in 1..nc |->
                        [ session       |-> at(j, 1),
                          firstGenCount |-> at(j, 2),
                          capacity      |-> at(j, 3),
                          count         |-> at(j, 4),
                          baseFinal     |-> at(j, 5) ]]
        tail     == 5 + ns + 5 * nc + 1
        shared   == [ sessions              |-> sessions,
                      localSession          |-> 0,
                      nextLocalGenCount     |-> 0,
                      lastTakenGenCount     |-> 0,
                      clusterCapacityPolicy |-> policy,
                      clusters              |-> clusters,
                      nextFinal             |-> bytes[tail] ]
    IN IF hasLocal
       THEN [core |-> [shared EXCEPT !.localSession = bytes[tail + 1],
                                     !.nextLocalGenCount = bytes[tail + 2],
                                     !.lastTakenGenCount = bytes[tail + 3]],
             err  |-> "none"]
       ELSE IF \E i \in 1..ns : sessions[i] = sessionId
       THEN [core |-> shared, err |-> "ProtocolError"]
       ELSE [core |-> [shared EXCEPT !.sessions = Append(@, sessionId),
                                     !.localSession = ns],
             err  |-> "none"]

serialize(self, withSession) ==
    [ bytes   |-> CoreSerialize(self.wasmCompressor, withSession),
      version |-> currentWrittenVersion ]

\* sessionId = "undefined" is the call without a session id; generated is the
\* id generateStableId() would return
deserialize(serialized, sessionId, generated) ==
    LET localSessionId == IF sessionId # "undefined" THEN sessionId ELSE generated
        got == CoreDeserialize(serialized.bytes, localSessionId)
    IN IF serialized.version # currentWrittenVersion
       THEN [ok |-> FALSE, err |-> "Unknown serialized compressor version found.",
             self |-> create(localSessionId, 1)]
       ELSE [ok   |-> got.err = "none",
             err  |-> got.err,
             self |-> [ localSessionId |-> localSessionId,
                        sessionTokens  |-> NoTokens,
                        wasmCompressor |-> got.core ]]

(***************************************************************************)
(* The state machine.  comp[c] is compressor object c; minted[c] the ids   *)
(* generateCompressedId returned to c's caller, in order; taken[c] the     *)
(* non-empty ranges takeNextCreationRange returned, in order; lastOp[c]    *)
(* the call c made in the last step and its outcome; delivered[c][s] the   *)
(* GenCount up to which the broadcast has delivered session s's ranges to  *)
(* c, in order and without a gap from GenCount 1 (-1 once a range of s     *)
(* arrived out of order).  These four are records kept beside the program; *)
(* observe names the ones a specification keeps ("minted", "taken",        *)
(* "delivered", and the names of the calls) and never changes.             *)
(***************************************************************************)
NoRange == [sessionId |-> "none", ids |-> <<>>]

Op(op, range, arg, call, ok, val, err) ==
    [ op |-> op, range |-> range, arg |-> arg, call |-> call,
      ok |-> ok, val |-> val, err |-> err ]

Idle == Op("idle", NoRange, 0, NoCall, TRUE, 0, "none")

\* the ranges a broadcast may deliver: every valid shape, and the empty range
RangeSessions == {"A", "B"}
InputRanges ==
    { [sessionId |-> s, ids |-> <<f, l>>] :
          s \in RangeSessions, f \in 1..MaxGen, l \in 1..MaxGen }
    \cup { [sessionId |-> s, ids |-> <<>>] : s \in RangeSessions }
ValidRanges == {r \in InputRanges : r.ids = <<>> \/ r.ids[1] <= r.ids[2]}

NothingDelivered == [s \in RangeSessions |-> 0]

\* the calls of one step: compressor c |-> its lastOp record
Did(calls) ==
    [c \in DOMAIN comp' |->
        IF c \in DOMAIN calls /\ calls[c].op \in observe THEN calls[c] ELSE Idle]

\* generateCompressedId called on the compressors cs
Mint(cs) ==
    /\ comp' = [c \in DOMAIN comp |->
                  IF c \in cs THEN generateCompressedId(comp[c]).self ELSE comp[c]]
    /\ minted' = IF "minted" \in observe
                 THEN [c \in DOMAIN comp |->
                         IF c \in cs
                         THEN Append(minted[c], generateCompressedId(comp[c]).id)
                         ELSE minted[c]]
                 ELSE minted
    /\ lastOp' = Did([c \in cs |->
                  Op("generate", NoRange, 0, NoCall, TRUE,
                     generateCompressedId(comp[c]).id, "none")])
    /\ UNCHANGED <<taken, delivered, observe>>

Generate(cs) ==
    /\ \A c \in cs : comp[c].wasmCompressor.nextLocalGenCount < MaxGen
    /\ Mint(cs)

Take(cs) ==
    /\ comp' = [c \in DOMAIN comp |->
                  IF c \in cs THEN takeNextCreationRange(comp[c]).self ELSE comp[c]]
    /\ taken' = IF "taken" \in observe
                THEN [c \in DOMAIN comp |->
                        IF c \in cs /\ takeNextCreationRange(comp[c]).range.ids # <<>>
                        THEN Append(taken[c], takeNextCreationRange(comp[c]).range)
                        ELSE taken[c]]
                ELSE taken
    /\ lastOp' = Did([c \in cs |->
                  Op("take", takeNextCreationRange(comp[c]).range, 0, NoCall,
                     TRUE, 0, "none")])
    /\ UNCHANGED <<minted, delivered, observe>>

SetClusterCapacity(cs, n) ==
    /\ comp' = [c \in DOMAIN comp |->
                  IF c \in cs THEN setClusterCapacity(comp[c], n).self ELSE comp[c]]
    /\ lastOp' = Did([c \in cs |->
                  LET r == setClusterCapacity(comp[c], n)
                  IN Op("setClusterCapacity", NoRange, n, NoCall, r.ok, 0, r.err)])
    /\ UNCHANGED <<minted, taken, delivered, observe>>

Finalize(cs, range) ==
    /\ comp' = [c \in DOMAIN comp |->
                  IF c \in cs THEN finalizeCreationRange(comp[c], range).self ELSE comp[c]]
    /\ lastOp' = Did([c \in cs |->
                  LET r == finalizeCreationRange(comp[c], range)
                  IN Op("finalize", range, 0, r.call, r.ok, 0, r.err)])
    /\ delivered' =
          IF "delivered" \in observe /\ range.ids # <<>>
          THEN [c \in DOMAIN comp |->
                  IF c \in cs
                  THEN [delivered[c] EXCEPT ![range.sessionId] =
                          IF @ >= 0 /\ range.ids[1] = @ + 1 THEN range.ids[2] ELSE -1]
                  ELSE delivered[c]]
          ELSE delivered
    /\ UNCHANGED <<minted, taken, observe>>

NormalizeToSessionSpace(cs, id, origin) ==
    /\ comp' = [c \in DOMAIN comp |->
                  IF c \in cs THEN normalizeToSessionSpace(comp[c], id, origin).self
                  ELSE comp[c]]
    /\ lastOp' = Did([c \in cs |->
                  LET r == normalizeToSessionSpace(comp[c], id, origin)
                  IN Op("normalizeToSessionSpace", [sessionId |-> origin, ids |-> <<>>],
                        id, NoCall, r.ok, r.val, r.err)])
    /\ UNCHANGED <<minted, taken, delivered, observe>>

(***************************************************************************)
(* Spec: one compressor of session A with its caller, and a broadcast that *)
(* delivers any range of sessions A and B in any order.  It keeps the ids  *)
(* the caller was given.                                                   *)
(***************************************************************************)
Solo(kept) ==
    /\ \E d \in DefaultCapacities : comp = (1 :> create("A", d))
    /\ minted = (1 :> <<>>)
    /\ taken = (1 :> <<>>)
    /\ delivered = (1 :> NothingDelivered)
    /\ lastOp = (1 :> Idle)
    /\ observe = kept

Init == Solo({"minted"})

Next ==
    \/ Generate({1})
    \/ Take({1})
    \/ \E n \in CapacityInputs : SetClusterCapacity({1}, n)
    \/ \E r \in ValidRanges : Finalize({1}, r)
    \/ \E s \in DocSessionIds : NormalizeToSessionSpace({1}, -1, s)

Spec == Init /\ [][Next]_vars

(***************************************************************************)
(* SpecTake: the same compressor and calls, keeping the ranges taken and   *)
(* every takeNextCreationRange call with what it returned.                 *)
(***************************************************************************)
InitTake == Solo({"taken", "take"})

SpecTake == InitTake /\ [][Next]_vars

(***************************************************************************)
(* SpecDeliver: the same compressor and calls, keeping how far the         *)
(* broadcast has delivered each session's ranges.                          *)
(***************************************************************************)
InitDeliver == Solo({"delivered"})

SpecDeliver == InitDeliver /\ [][Next]_vars

(***************************************************************************)
(* SpecFinalize: the compressor as a receiver of the broadcast only,       *)
(* keeping every finalizeCreationRange and setClusterCapacity call with    *)
(* its outcome.                                                            *)
(***************************************************************************)
InitFinalize == Solo({"finalize", "setClusterCapacity"})

NextFinalize ==
    \/ \E n \in CapacityInputs : SetClusterCapacity({1}, n)
    \/ \E r \in ValidRanges : Finalize({1}, r)

SpecFinalize == InitFinalize /\ [][NextFinalize]_vars

(***************************************************************************)
(* SpecPair: two compressors of one document, of session A and of session  *)
(* A or B.  Each has its own caller; the broadcast delivers every          *)
(* setClusterCapacity and every range to both, in the same order.          *)
(***************************************************************************)
InitPair ==
    /\ \E d \in DefaultCapacities, s2 \in DocSessionIds :
          comp = (1 :> create("A", d)) @@ (2 :> create(s2, d))
    /\ minted = (1 :> <<>>) @@ (2 :> <<>>)
    /\ taken = (1 :> <<>>) @@ (2 :> <<>>)
    /\ delivered = (1 :> NothingDelivered) @@ (2 :> NothingDelivered)
    /\ lastOp = (1 :> Idle) @@ (2 :> Idle)
    /\ observe = {}

NextPair ==
    \/ \E c \in {1, 2} : Generate({c})
    \/ \E c \in {1, 2} : Take({c})
    \/ \E c \in {1, 2} : \E s \in DocSessionIds : NormalizeToSessionSpace({c}, -1, s)
    \/ \E n \in CapacityInputs : SetClusterCapacity({1, 2}, n)
    \/ \E r \in ValidRanges : Finalize({1, 2}, r)

SpecPair == InitPair /\ [][NextPair]_vars

(***************************************************************************)
(* SpecResume: compressor 1 as in Spec; at any point compressor 2 is made  *)
(* by deserialize(serialize(true)) of compressor 1, and from then on every *)
(* call is made on both.  It keeps what generateCompressedId,              *)
(* takeNextCreationRange and normalizeToSessionSpace returned.             *)
(***************************************************************************)
InitResume == Solo({"generate", "take", "normalizeToSessionSpace"})

Resume ==
    /\ DOMAIN comp = {1}
    /\ \E generated \in FreshSessionIds :
          LET r == deserialize(serialize(comp[1], TRUE), "undefined", generated)
          IN /\ r.ok
             /\ comp' = comp @@ (2 :> r.self)
    /\ minted' = minted @@ (2 :> minted[1])
    /\ taken' = taken @@ (2 :> taken[1])
    /\ delivered' = delivered @@ (2 :> delivered[1])
    /\ lastOp' = (1 :> Idle) @@ (2 :> Idle)
    /\ UNCHANGED observe

NextResume ==
    \/ Resume
    \/ Generate(DOMAIN comp)
    \/ Take(DOMAIN comp)
    \/ \E n \in CapacityInputs : SetClusterCapacity(DOMAIN comp, n)
    \/ \E r \in ValidRanges : Finalize(DOMAIN comp, r)
    \/ \E s \in DocSessionIds : NormalizeToSessionSpace(DOMAIN comp, -1, s)

SpecResume == InitResume /\ [][NextResume]_vars

(***************************************************************************)
(* SpecQuery: the same compressor and calls as Spec, keeping every         *)
(* normalizeToSessionSpace call with its outcome.                          *)
(***************************************************************************)
InitQuery == Solo({"normalizeToSessionSpace"})

SpecQuery == InitQuery /\ [][Next]_vars

(***************************************************************************)
(* SpecCapacity: the compressor as a receiver of the broadcast, with       *)
(* setClusterCapacity offered the largest capacity too; it keeps every     *)
(* setClusterCapacity call with its outcome.                               *)
(***************************************************************************)
CapacityEdgeInputs == CapacityInputs \cup {MaxClusterSize}

InitCapacity == Solo({"setClusterCapacity"})

NextCapacity ==
    \/ \E n \in CapacityEdgeInputs : SetClusterCapacity({1}, n)
    \/ \E r \in ValidRanges : Finalize({1}, r)

SpecCapacity == InitCapacity /\ [][NextCapacity]_vars

(***************************************************************************)
(* The end-to-end scenarios: compressor 1 of session A and compressor 2 of *)
(* session B under capacity policy 5.  A script is the order in which the  *)
(* broadcast delivers the sessions' ranges; a session takes exactly the    *)
(* ranges the script names for it (any range when it names none), mints    *)
(* past the end of one only after it took it, and the broadcast delivers a *)
(* range to both compressors once its owner has taken it.  The scenario    *)
(* specifications keep the ids minted and how far each session's ranges    *)
(* have been delivered.                                                    *)
(***************************************************************************)
ScenarioPolicy == 5

Range(s, f, l) == [sessionId |-> s, ids |-> <<f, l>>]

\* S2: session A's range 1..3, then one more id; session B mints on its own
S2Order == << Range("A", 1, 3) >>
S2Mints == [s \in DocSessionIds |-> IF s = "A" THEN 4 ELSE 3]

\* S3 and S4: A-range(1..2), B-range(1..3), A-range(3..4), B-range(4..4)
S4Order == << Range("A", 1, 2), Range("B", 1, 3), Range("A", 3, 4), Range("B", 4, 4) >>
S4Mints == [s \in DocSessionIds |-> 4]

\* the ranges of the script that name session s
ScriptRanges(script, s) ==
    { script[i] : i \in {j \in 1..Len(script) : script[j].sessionId = s} }

\* how many ranges of the script the broadcast has delivered
ScriptPosition(script) ==
    Cardinality({ i \in 1..Len(script) :
                    delivered[1][script[i].sessionId] >= script[i].ids[2] })

OwnerOf(s) == CHOOSE c \in DOMAIN comp : comp[c].localSessionId = s

InitScenario ==
    /\ \E d \in DefaultCapacities :
          comp = (1 :> create("A", d)) @@ (2 :> create("B", d))
    /\ minted = (1 :> <<>>) @@ (2 :> <<>>)
    /\ taken = (1 :> <<>>) @@ (2 :> <<>>)
    /\ delivered = (1 :> NothingDelivered) @@ (2 :> NothingDelivered)
    /\ lastOp = (1 :> Idle) @@ (2 :> Idle)
    /\ observe = {"minted", "delivered"}

ScenarioSetPolicy(script) ==
    /\ ScriptPosition(script) = 0
    /\ \E c \in DOMAIN comp :
          comp[c].wasmCompressor.clusterCapacityPolicy # ScenarioPolicy
    /\ SetClusterCapacity(DOMAIN comp, ScenarioPolicy)

ScenarioGenerate(c, script, mints) ==
    LET core == comp[c].wasmCompressor
        s    == comp[c].localSessionId
    IN /\ core.nextLocalGenCount < mints[s]
       /\ \A r \in ScriptRanges(script, s) :
             r.ids[2] = core.nextLocalGenCount =>
                core.lastTakenGenCount = core.nextLocalGenCount
       /\ Mint({c})

ScenarioTake(c, script) ==
    LET core == comp[c].wasmCompressor
        s    == comp[c].localSessionId
    IN /\ core.lastTakenGenCount < core.nextLocalGenCount
       /\ ScriptRanges(script, s) # {} =>
             Range(s, core.lastTakenGenCount + 1, core.nextLocalGenCount)
                 \in ScriptRanges(script, s)
       /\ Take({c})

ScenarioDeliver(script) ==
    /\ ScriptPosition(script) < Len(script)
    /\ \A c \in DOMAIN comp :
          comp[c].wasmCompressor.clusterCapacityPolicy = ScenarioPolicy
    /\ LET r == script[ScriptPosition(script) + 1]
       IN /\ comp[OwnerOf(r.sessionId)].wasmCompressor.lastTakenGenCount >= r.ids[2]
          /\ Finalize(DOMAIN comp, r)

NextS2 ==
    \/ ScenarioSetPolicy(S2Order)
    \/ \E c \in {1, 2} : ScenarioGenerate(c, S2Order, S2Mints)
    \/ \E c \in {1, 2} : ScenarioTake(c, S2Order)
    \/ ScenarioDeliver(S2Order)

SpecS2 == InitScenario /\ [][NextS2]_vars

NextS4 ==
    \/ ScenarioSetPolicy(S4Order)
    \/ \E c \in {1, 2} : ScenarioGenerate(c, S4Order, S4Mints)
    \/ \E c \in {1, 2} : ScenarioTake(c, S4Order)
    \/ ScenarioDeliver(S4Order)

SpecS4 == InitScenario /\ [][NextS4]_vars

(***************************************************************************)
(* Properties.                                                             *)
(***************************************************************************)

\* C1: a finalizeCreationRange call with a range {firstGenCount f,
\* lastGenCount l}, l >= f >= 1, of session s hands the core a finalization of
\* session s that starts at GenCount f and has count l - f + 1.
C1_FinalizePassesRangeLength ==
    \A c \in DOMAIN comp :
        (lastOp[c].op = "finalize" /\ lastOp[c].range.ids # <<>>) =>
            /\ SessionIdOf(comp[c].wasmCompressor, lastOp[c].call.token)
                   = lastOp[c].range.sessionId
            /\ lastOp[c].call.first = lastOp[c].range.ids[1]
            /\ lastOp[c].call.count
                   = lastOp[c].range.ids[2] - lastOp[c].range.ids[1] + 1

\* C2: the non-empty ranges takeNextCreationRange returned are contiguous, the
\* first begins at 1, each begins one past the end of the previous one, and
\* right after a take they end at nextLocalGenCount (their union is
\* [1, nextLocalGenCount]).
TakenPartition(c) ==
    LET T == taken[c]
        core == comp[c].wasmCompressor
    IN /\ \A i \in 1..Len(T) :
             /\ T[i].ids # <<>>
             /\ T[i].ids[1] <= T[i].ids[2]
             /\ T[i].ids[1] = IF i = 1 THEN 1 ELSE T[i - 1].ids[2] + 1
       /\ lastOp[c].op = "take" =>
             core.nextLocalGenCount = IF T = <<>> THEN 0 ELSE T[Len(T)].ids[2]

\* C2, the step: a take with ids pending returns exactly the pending ids; a take
\* with nothing pending returns a range with no ids and changes nothing.
TakeStep(c) ==
    LET core == comp[c].wasmCompressor
    IN lastOp'[c].op = "take" =>
          IF core.lastTakenGenCount = core.nextLocalGenCount
          THEN /\ lastOp'[c].range.ids = <<>>
               /\ comp' = comp /\ taken' = taken /\ minted' = minted
          ELSE /\ lastOp'[c].range.ids
                     = <<core.lastTakenGenCount + 1, core.nextLocalGenCount>>
               /\ taken'[c] = Append(taken[c], lastOp'[c].range)

C2_TakePartitionsGenCounts ==
    /\ [](\A c \in DOMAIN comp : TakenPartition(c))
    /\ [][\A c \in DOMAIN comp : TakeStep(c)]_vars

\* C2 witness: two ranges were taken, the second up to MaxGen, and a further
\* take found nothing pending.
C2_Witness ==
    /\ Len(taken[1]) = 2
    /\ taken[1][2].ids[2] = MaxGen
    /\ lastOp[1].op = "take"
    /\ lastOp[1].range.ids = <<>>

(***************************************************************************)
(* What a compressor knows, read off its state.                            *)
(***************************************************************************)
Core(c) == comp[c].wasmCompressor

Clusters(c) == Core(c).clusters

\* the FinalIds covered by the clusters of c
KnownFinals(c) ==
    UNION { Clusters(c)[i].baseFinal
              .. (Clusters(c)[i].baseFinal + Clusters(c)[i].count - 1) :
            i \in 1..Len(Clusters(c)) }

\* the ids generateCompressedId has returned to c's caller
MintedIds(c) == { minted[c][k] : k \in 1..Len(minted[c]) }

\* the GenCounts a range may name
GenCounts == 1..MaxGen

\* C3: final ids are unique within the document.  No FinalId is covered by two
\* clusters; two distinct (session, GenCount) pairs never normalize to the same
\* FinalId; and the FinalId of (s, g) decompresses to the one StableId
\* sessionBase(s) + (g - 1).
C3_FinalIdsUnique ==
    \A c \in DOMAIN comp :
        /\ \A i, j \in 1..Len(Clusters(c)) :
              i # j =>
                 \/ Clusters(c)[i].baseFinal + Clusters(c)[i].count
                        <= Clusters(c)[j].baseFinal
                 \/ Clusters(c)[j].baseFinal + Clusters(c)[j].count
                        <= Clusters(c)[i].baseFinal
        /\ \A s1, s2 \in DocSessionIds : \A g1, g2 \in GenCounts :
              LET r1 == normalizeToSessionSpace(comp[c], -g1, s1)
                  r2 == normalizeToSessionSpace(comp[c], -g2, s2)
              IN (r1.ok /\ r2.ok /\ r1.val >= 0 /\ r1.val = r2.val)
                    => (s1 = s2 /\ g1 = g2)
        /\ \A s \in DocSessionIds : \A g \in GenCounts :
              LET r == normalizeToSessionSpace(comp[c], -g, s)
                  d == decompress(comp[c], r.val)
              IN (r.ok /\ r.val >= 0) => (d.ok /\ d.val = SessionBase(s) + (g - 1))

\* C3 witness: both sessions have FinalIds, session B two of them.
C3_Witness ==
    /\ normalizeToSessionSpace(comp[1], -1, "A").val >= 0
    /\ normalizeToSessionSpace(comp[1], -1, "B").ok
    /\ normalizeToSessionSpace(comp[1], -2, "B").ok

C5_SessionOpRoundTrip ==
    \A c \in DOMAIN comp : \A x \in MintedIds(c) \cup KnownFinals(c) :
        LET o == normalizeToOpSpace(comp[c], x)
            b == normalizeToSessionSpace(comp[c], o.val, comp[c].localSessionId)
        IN o.ok /\ b.ok /\ b.val = x

\* C6: recompress(decompress(x)) = x for every id x known to the compressor:
\* the ids generateCompressedId returned, and the covered FinalIds whose
\* GenCount a foreign session owns or the local session has minted.
MintedOrForeignFinals(c) ==
    { f \in KnownFinals(c) :
        LET cl == Clusters(c)[FindByFinal(Core(c), f)]
        IN \/ cl.session # Core(c).localSession
           \/ cl.firstGenCount + (f - cl.baseFinal) <= Core(c).nextLocalGenCount }

C6_DecompressRecompressRoundTrip ==
    \A c \in DOMAIN comp : \A x \in MintedIds(c) \cup MintedOrForeignFinals(c) :
        LET d == decompress(comp[c], x)
            r == recompress(comp[c], d.val)
        IN d.ok /\ r.ok /\ r.val = x

\* C9: for a foreign session s, normalizeToSessionSpace(-g, s) throws
\* UnfinalizedForeignId while the broadcast has not delivered GenCount g of s,
\* and returns the FinalId of (s, g) once it has.
C9_ForeignLocalId ==
    \A c \in DOMAIN comp :
        \A s \in RangeSessions \ {comp[c].localSessionId} : \A g \in GenCounts :
            LET r == normalizeToSessionSpace(comp[c], -g, s)
                d == decompress(comp[c], r.val)
            IN /\ (0 <= delivered[c][s] /\ delivered[c][s] < g)
                     => (~r.ok /\ r.err = "UnfinalizedForeignId")
               /\ delivered[c][s] >= g
                     => (r.ok /\ r.val >= 0 /\ d.ok
                         /\ d.val = SessionBase(s) + (g - 1))

\* the cluster table of c with every cluster's session named by its SessionId
ClusterTable(c) ==
    [i \in 1..Len(Clusters(c)) |->
        [Clusters(c)[i] EXCEPT !.session = SessionIdOf(Core(c), @)]]

SameFinalization(c1, c2) ==
    /\ ClusterTable(c1) = ClusterTable(c2)
    /\ Core(c1).nextFinal = Core(c2).nextFinal
    /\ Core(c1).clusterCapacityPolicy = Core(c2).clusterCapacityPolicy

C8_Convergence ==
    \A f \in KnownFinals(1) \cap KnownFinals(2) :
        LET d1 == decompress(comp[1], f)
            d2 == decompress(comp[2], f)
        IN /\ d1.ok /\ d2.ok /\ d1.val = d2.val
           /\ \A s \in DocSessionIds : \A g \in GenCounts :
                 LET r == normalizeToSessionSpace(comp[1], -g, s)
                 IN (r.ok /\ r.val = f) => d2.val = SessionBase(s) + (g - 1)

\* C8 witness: compressors of sessions A and B both know FinalIds of A and of B.
C8_Witness ==
    /\ comp[1].localSessionId # comp[2].localSessionId
    /\ \E f1, f2 \in KnownFinals(1) \cap KnownFinals(2) :
          /\ decompress(comp[2], f1).val = SessionBase("A")
          /\ decompress(comp[2], f2).val = SessionBase("B") + 1

\* C10: the compressor made by deserialize(serialize(true)) serializes to the
\* same bytes as the original, and every later call returns the same on both.
C10_ResumeEquivalent ==
    2 \in DOMAIN comp =>
        /\ serialize(comp[2], TRUE) = serialize(comp[1], TRUE)
        /\ lastOp[2] = lastOp[1]

\* C11: the compressor deserialize makes from a serialize(true) blob, called
\* without a session id, is the session that was serialized: its
\* localSessionId is the original's, and every range it returns from
\* takeNextCreationRange carries that sessionId and the GenCounts the original
\* would hand out next (from the original lastTakenGenCount + 1).
C11_ResumeSameSession ==
    2 \in DOMAIN comp =>
        /\ comp[2].localSessionId = comp[1].localSessionId
        /\ Core(2).lastTakenGenCount = Core(1).lastTakenGenCount
        /\ lastOp[2].op = "take" =>
              /\ lastOp[2].range.sessionId = comp[1].localSessionId
              /\ lastOp[2].range.ids = lastOp[1].range.ids

\* C12: finalized mappings are permanent.  In every step no cluster is
\* removed, an existing cluster keeps its session, firstGenCount, baseFinal and
\* capacity and its count does not decrease; a GenCount g of session s that
\* maps to FinalId f still maps to f, and f still decompresses to the StableId
\* of (s, g).
Permanent(c) ==
    LET old == comp[c].wasmCompressor
        new == comp'[c].wasmCompressor
    IN /\ Len(new.clusters) >= Len(old.clusters)
       /\ \A i \in 1..Len(old.clusters) :
             /\ SessionIdOf(new, new.clusters[i].session)
                    = SessionIdOf(old, old.clusters[i].session)
             /\ new.clusters[i].firstGenCount = old.clusters[i].firstGenCount
             /\ new.clusters[i].baseFinal = old.clusters[i].baseFinal
             /\ new.clusters[i].capacity = old.clusters[i].capacity
             /\ new.clusters[i].count >= old.clusters[i].count
       /\ \A s \in DocSessionIds : \A g \in GenCounts :
             LET before == normalizeToSessionSpace(comp[c], -g, s)
                 after  == normalizeToSessionSpace(comp'[c], -g, s)
             IN (before.ok /\ before.val >= 0) =>
                   /\ after.ok /\ after.val = before.val
                   /\ decompress(comp'[c], before.val).ok
                   /\ decompress(comp'[c], before.val).val = SessionBase(s) + (g - 1)

C12_FinalizedPermanent == [][\A c \in DOMAIN comp : Permanent(c)]_vars

\* C12 witness: a cluster was extended in place to count 2, and another cluster
\* was allocated after it.
C12_Witness ==
    /\ Len(Clusters(1)) >= 2
    /\ Clusters(1)[1].count = 2

\* C13: setClusterCapacity(n) is accepted exactly when 1 <= n <= 2^20; a
\* rejected call throws and changes nothing; an accepted call changes the
\* capacity policy to n and nothing else (no cluster, not nextFinal).
CapacityStep(c) ==
    lastOp'[c].op = "setClusterCapacity" =>
        LET n == lastOp'[c].arg
        IN /\ lastOp'[c].ok <=> (1 <= n /\ n <= 2 ^ 20)
           /\ ~lastOp'[c].ok =>
                 /\ lastOp'[c].err # "none"
                 /\ comp'[c] = comp[c]
           /\ lastOp'[c].ok =>
                 /\ comp'[c] = [comp[c] EXCEPT
                                  !.wasmCompressor.clusterCapacityPolicy = n]
                 /\ comp'[c].wasmCompressor.clusters = comp[c].wasmCompressor.clusters
                 /\ comp'[c].wasmCompressor.nextFinal = comp[c].wasmCompressor.nextFinal

C13_SetClusterCapacity == [][\A c \in DOMAIN comp : CapacityStep(c)]_vars

\* C13 witness: the capacity 2^20 was accepted by a compressor that holds a
\* cluster of a smaller capacity.
C13_Witness ==
    /\ lastOp[1].op = "setClusterCapacity"
    /\ lastOp[1].ok
    /\ lastOp[1].arg = 2 ^ 20
    /\ Core(1).clusterCapacityPolicy = 2 ^ 20
    /\ Len(Clusters(1)) >= 1
    /\ Clusters(1)[1].capacity < 2 ^ 20

\* C14: the cluster table in baseFinal order is strictly increasing and
\* densely packed: the first cluster has baseFinal 0, each next cluster's
\* baseFinal is the previous baseFinal + capacity, and nextFinal is the last
\* baseFinal + capacity (0 when there is no cluster).
C14_DensePacking ==
    \A c \in DOMAIN comp :
        LET cl == Clusters(c)
            n  == Len(cl)
        IN /\ n = 0 => Core(c).nextFinal = 0
           /\ n > 0 =>
                 /\ cl[1].baseFinal = 0
                 /\ Core(c).nextFinal = cl[n].baseFinal + cl[n].capacity
           /\ \A i \in 1..(n - 1) :
                 /\ cl[i].baseFinal < cl[i + 1].baseFinal
                 /\ cl[i + 1].baseFinal = cl[i].baseFinal + cl[i].capacity

\* C14 witness: three clusters, the first with slack left in its capacity.
C14_Witness ==
    /\ Len(Clusters(1)) = 3
    /\ Clusters(1)[1].count < Clusters(1)[1].capacity

\* the session's last cluster (position 0: none) before a finalize call, and
\* whether the range first.. is contiguous with it
LastClusterOf(core, sessionId) == ActivePosition(core, IndexOf(core, sessionId))

Contiguous(core, sessionId, first) ==
    LET a == LastClusterOf(core, sessionId)
    IN a = 0 \/ core.clusters[a].firstGenCount + core.clusters[a].count = first

\* C17: finalizeCreationRange of a contiguous range of n = last - first + 1 ids
\* of session s adds n to the count of s's last cluster, leaving nextFinal and
\* the number of clusters alone, exactly when that cluster exists, n fits in
\* its remaining capacity and it ends at nextFinal; otherwise it appends one
\* cluster [s, first, capacity max(policy, n), count n, baseFinal = old
\* nextFinal] and sets nextFinal to its baseFinal + capacity, the clusters
\* before it left as they were.
ExtendOrAppend(c) ==
    LET old    == comp[c].wasmCompressor
        new    == comp'[c].wasmCompressor
        range  == lastOp'[c].range
        first  == range.ids[1]
        n      == range.ids[2] - range.ids[1] + 1
        a      == LastClusterOf(old, range.sessionId)
        active == old.clusters[a]
        last   == new.clusters[Len(new.clusters)]
    IN (lastOp'[c].op = "finalize" /\ range.ids # <<>>
            /\ Contiguous(old, range.sessionId, first)) =>
          IF a # 0 /\ active.count + n <= active.capacity
                   /\ active.baseFinal + active.capacity = old.nextFinal
          THEN /\ new.clusters = [old.clusters EXCEPT ![a].count = @ + n]
               /\ new.nextFinal = old.nextFinal
          ELSE /\ Len(new.clusters) = Len(old.clusters) + 1
               /\ SubSeq(new.clusters, 1, Len(old.clusters)) = old.clusters
               /\ SessionIdOf(new, last.session) = range.sessionId
               /\ last.firstGenCount = first
               /\ last.count = n
               /\ last.capacity = Max(old.clusterCapacityPolicy, n)
               /\ last.baseFinal = old.nextFinal
               /\ new.nextFinal = last.baseFinal + last.capacity

C17_ExtendOrAppend == [][\A c \in DOMAIN comp : ExtendOrAppend(c)]_vars

\* C18: finalizeCreationRange of a range that is not contiguous with the last
\* cluster of its session (a gap, an overlap, a range delivered twice) throws
\* ProtocolError and changes nothing.
RejectNonContiguous(c) ==
    LET old   == comp[c].wasmCompressor
        range == lastOp'[c].range
    IN (lastOp'[c].op = "finalize" /\ range.ids # <<>>
            /\ ~Contiguous(old, range.sessionId, range.ids[1])) =>
          /\ ~lastOp'[c].ok
          /\ lastOp'[c].err = "ProtocolError"
          /\ comp'[c] = comp[c]

EmptyRangeStep(c) ==
    (lastOp'[c].op = "finalize" /\ lastOp'[c].range.ids = <<>>) =>
        /\ lastOp'[c].ok
        /\ lastOp'[c].err = "none"
        /\ comp'[c] = comp[c]

C20_EmptyRangeNoOp == [][\A c \in DOMAIN comp : EmptyRangeStep(c)]_vars

\* C20 witness: a range without ids of session B was finalized by a compressor
\* that holds a cluster and has never seen session B.
C20_Witness ==
    /\ lastOp[1].op = "finalize"
    /\ lastOp[1].range = [sessionId |-> "B", ids |-> <<>>]
    /\ lastOp[1].ok
    /\ IndexOf(Core(1), "B") = -1
    /\ Len(Clusters(1)) >= 1

\* C15: every cluster has 1 <= count <= capacity, and the clusters of a
\* session, in firstGenCount order, are GenCount-contiguous from GenCount 1:
\* the first has firstGenCount 1 and each next one begins at the previous
\* firstGenCount + count.
C15_SessionClustersContiguous ==
    \A c \in DOMAIN comp :
        /\ \A i \in 1..Len(Clusters(c)) :
              /\ 1 <= Clusters(c)[i].count
              /\ Clusters(c)[i].count <= Clusters(c)[i].capacity
        /\ \A idx \in 0..(Len(Core(c).sessions) - 1) :
              \A i \in SessionClusterPositions(Core(c), idx) :
                 LET earlier == {j \in SessionClusterPositions(Core(c), idx) : j < i}
                     prev    == CHOOSE j \in earlier : \A k \in earlier : k <= j
                 IN Clusters(c)[i].firstGenCount =
                       IF earlier = {} THEN 1
                       ELSE Clusters(c)[prev].firstGenCount + Clusters(c)[prev].count

\* the cluster table scenario S3 ends with, and the one S4 ends with
ClusterOf(s, first, capacity, count, base) ==
    [ session |-> s, firstGenCount |-> first, capacity |-> capacity,
      count |-> count, baseFinal |-> base ]

S3Table == << ClusterOf("A", 1, 5, 2, 0), ClusterOf("B", 1, 5, 3, 5) >>

S4Table ==
    << ClusterOf("A", 1, 5, 2, 0), ClusterOf("B", 1, 5, 4, 5), ClusterOf("A", 3, 5, 2, 10) >>

\* C16: scenario S4.  Under policy 5, once the broadcast has delivered
\* A-range(1..2), B-range(1..3) and A-range(3..4), both compressors hold the
\* S3 table and the new cluster [A: firstGenCount 3, base 10, cap 5, count 2];
\* once it has delivered B-range(4..4) too, B's cluster has count 4, no
\* cluster was added, and nextFinal is 15.
C16_ScenarioS4 ==
    \A c \in DOMAIN comp :
        /\ ScriptPosition(S4Order) = 3 =>
              /\ ClusterTable(c) = Append(S3Table, ClusterOf("A", 3, 5, 2, 10))
              /\ Core(c).nextFinal = 15
        /\ ScriptPosition(S4Order) = 4 =>
              /\ ClusterTable(c) = S4Table
              /\ Core(c).nextFinal = 15

\* C19: generateCompressedId returns the FinalId baseFinal + (g - firstGenCount)
\* when the new GenCount g lies in the block of the local session's last
\* cluster (g = 4 after the range 1..3 was finalized under policy 5: FinalId 3,
\* not -4), returns -g otherwise, and increments nextLocalGenCount by 1.
GenerateStep(c) ==
    LET old == comp[c].wasmCompressor
        g   == old.nextLocalGenCount + 1
        a   == ActivePosition(old, old.localSession)
        cl  == old.clusters[a]
    IN Len(minted'[c]) = Len(minted[c]) + 1 =>
          /\ comp'[c].wasmCompressor.nextLocalGenCount = g
          /\ minted'[c][g] =
                IF a # 0 /\ cl.firstGenCount <= g /\ g < cl.firstGenCount + cl.capacity
                THEN cl.baseFinal + (g - cl.firstGenCount)
                ELSE -g
          /\ ( /\ delivered[c][comp[c].localSessionId] = 3
               /\ old.clusterCapacityPolicy = ScenarioPolicy
               /\ g = 4 ) => minted'[c][g] = 3

C19_GenerateFinalWhenCovered == [][\A c \in DOMAIN comp : GenerateStep(c)]_vars

\* C21: a query never changes the persistent state of the compressor:
\* serialize(true) is the same before and after a normalizeToSessionSpace
\* call, whether it returns or throws and whether or not the compressor has
\* seen the origin session before.  (normalizeToOpSpace, decompress,
\* tryDecompress, recompress and tryRecompress hand the adapter a value only
\* and leave the object as it is.)
QueryStep(c) ==
    lastOp'[c].op = "normalizeToSessionSpace" =>
        serialize(comp'[c], TRUE) = serialize(comp[c], TRUE)

C21_QueriesPure == [][\A c \in DOMAIN comp : QueryStep(c)]_vars

====
